---- MODULE Spec2Model ----
(***************************************************************************)
(* State-machine model of pointer-quest-wasm/src/lib.rs: AnimationEngine,  *)
(* its two HashMaps (pointers, memory_blocks), animation_speed and         *)
(* last_frame_time, and the host clock performance.now() it reads.         *)
(*                                                                         *)
(* f64 values are fixed-point integers on a grid on which every operation  *)
(* of the code is exact:                                                   *)
(*   times               milliseconds, multiples of TickMs                 *)
(*   animation_speed     tenths          (SpeedUnits  = 1.0)               *)
(*   animation_progress  twentieths      (ProgressUnits = 1.0)             *)
(*   thickness           thousandths     (ThickUnits  = 1.0)               *)
(*   coordinates         whole units                                       *)
(*   canvas coordinates  halves          (CanvasUnits = 1.0)               *)
(* Only finite numbers are modelled (no NaN, no infinities).               *)
(***************************************************************************)
EXTENDS Integers, Sequences, FiniteSets, TLC

VARIABLES
    pointers,           \* HashMap<String, Pointer3D>: function id -> record
    memory_blocks,      \* HashMap<String, MemoryBlock3D>
    animation_speed,    \* f64, tenths
    last_frame_time,    \* f64, milliseconds
    now,                \* window.performance.now(), milliseconds
    last_call,          \* the most recent call on the engine and its arguments
    history             \* what the calls so far have added, removed and consumed

vars == <<pointers, memory_blocks, animation_speed, last_frame_time, now, last_call,
          history>>

engine == <<pointers, memory_blocks, animation_speed, last_frame_time>>

----------------------------------------------------------------------------
\* Bounds of the model.

\* The host clock advances at most this many ticks after construction.
MaxTicks == 2

----------------------------------------------------------------------------
\* Fixed-point scales of the f64 fields and the literals of the code.

ProgressUnits == 20
SpeedUnits == 10
ThickUnits == 1000
MsPerSecond == 1000
TickMs == MsPerSecond \div 2

InitialSpeed == 10
MinSpeed == 1
MaxSpeed == 50
WrapLimit == 20
ThickBase == 3000
ThickAmp == 2

\* Canvas coordinates and sizes are in halves (CanvasUnits = 1.0), so that
\* z * 0.5 is exact.
CanvasUnits == 2
BorderWidth == 2
LabelDx == 10
LabelDy == 25
ArrowLength == 15

----------------------------------------------------------------------------
\* Values the host passes in.

Ids == {"a", "b"}

Point(x, y, z) == [x |-> x, y |-> y, z |-> z]

Pointer3D(id, s, e, color, thickness, animated, progress) ==
    [id |-> id,
     start_x |-> s.x, start_y |-> s.y, start_z |-> s.z,
     end_x |-> e.x, end_y |-> e.y, end_z |-> e.z,
     color |-> color, thickness |-> thickness,
     animated |-> animated, animation_progress |-> progress]

MemoryBlock3D(id, p, w, h, d, color, value, memory_type) ==
    [id |-> id, x |-> p.x, y |-> p.y, z |-> p.z,
     width |-> w, height |-> h, depth |-> d,
     color |-> color, value |-> value, memory_type |-> memory_type]

\* Option<String>
None == <<>>
Some(s) == <<s>>

\* Well-shaped pointer descriptors for one id: a static one, and animated
\* ones with a caller thickness outside the pulse range and with a progress
\* inside and outside the unit interval.
PointerDescs(id) ==
    IF id = "a"
    THEN { Pointer3D(id, Point(0, 0, 0), Point(10, 10, 4), "red", 2000, FALSE, 5),
           Pointer3D(id, Point(10, 10, 4), Point(0, 0, 0), "blue", 10000, TRUE, 0),
           Pointer3D(id, Point(0, 0, 0), Point(0, 0, 0), "red", 3000, TRUE, 30) }
    ELSE { Pointer3D(id, Point(10, 10, 4), Point(0, 0, 0), "blue", 7000, FALSE, 0),
           Pointer3D(id, Point(0, 0, 0), Point(10, 10, 4), "red", 500, TRUE, 10) }

BlockDescs(id) ==
    IF id = "a"
    THEN { MemoryBlock3D(id, Point(0, 0, 0), 40, 30, 8, "green", Some("42"), "stack"),
           MemoryBlock3D(id, Point(10, 10, 4), 50, 20, 0, "gray", None, "heap") }
    ELSE { MemoryBlock3D(id, Point(10, 10, 4), 40, 30, 8, "green", None, "global") }

\* A JsValue handed to the binding layer: an object of one of the two
\* shapes, or something that has neither (undefined).
JsPointers == { [shape |-> "Pointer3D", val |-> d] :
                    d \in UNION { PointerDescs(id) : id \in Ids } }
JsBlocks == { [shape |-> "MemoryBlock3D", val |-> d] :
                    d \in UNION { BlockDescs(id) : id \in Ids } }
JsUndefined == [shape |-> "undefined"]
JsValues == JsPointers \cup JsBlocks \cup {JsUndefined}

\* What the host passes to add_pointer and to add_memory_block: every
\* well-shaped descriptor, undefined, and one object of the other shape.
PointerArgs == JsPointers \cup {JsUndefined} \cup
                { [shape |-> "MemoryBlock3D", val |-> d] : d \in BlockDescs("b") }
BlockArgs == JsBlocks \cup {JsUndefined}

\* End points passed to update_pointer_position.
EndPoints == { Point(1, 2, 3) }

\* Speeds passed to set_animation_speed (tenths): -5.0, 0.5, 100.0.
SpeedArgs == { -50, 5, 1000 }

\* The delta_time argument passed to animate (milliseconds).
DeltaArgs == { 16, 500 }

\* The host page: the elements of the document by id. "scene" is a canvas
\* with a 2d context, "gl" a canvas whose getContext("2d") returns null,
\* "title" an element that is no canvas; "missing" names no element.
Document ==
    [id \in {"scene", "gl", "title"} |->
        IF id = "scene" THEN [tag |-> "canvas", context2d |-> TRUE, width |-> 800, height |-> 600]
        ELSE IF id = "gl" THEN [tag |-> "canvas", context2d |-> FALSE, width |-> 300, height |-> 150]
        ELSE [tag |-> "h1", context2d |-> FALSE, width |-> 0, height |-> 0]]

\* The canvas_id argument passed to render.
CanvasIdArgs == { "scene", "gl", "title", "missing" }

\* Clock reading at which the engine is constructed, and the last reading
\* the model follows the clock to.
StartTime == TickMs
MaxClock == StartTime + MaxTicks * TickMs

----------------------------------------------------------------------------
\* HashMap operations.

EmptyMap == [k \in {} |-> k]

\* Mutant of insert: keeps the entry already stored under the key
\* (entry(key).or_insert(value)).
insert_or_keep(map, key, value) ==
    [k \in DOMAIN map \cup {key} |-> IF k \in DOMAIN map THEN map[k] ELSE value]

insert(map, key, value) ==
    [k \in DOMAIN map \cup {key} |-> IF k = key THEN value ELSE map[k]]

remove(map, key) ==
    [k \in DOMAIN map \ {key} |-> map[k]]

len(map) == Cardinality(DOMAIN map)

\* serde_wasm_bindgen::from_value::<T>: Ok(val) exactly for a value of shape T.
from_value(js, shape) ==
    IF js.shape = shape THEN [ok |-> TRUE, val |-> js.val] ELSE [ok |-> FALSE]

----------------------------------------------------------------------------
\* f64 helpers.

f64_max(a, b) == IF a > b THEN a ELSE b
f64_min(a, b) == IF a < b THEN a ELSE b

\* 1000 * sin(2*pi*k/20) for k = 0..5, rounded to the nearest thousandth.
SinQuarter == <<0, 309, 588, 809, 951, 1000>>

\* (progress * PI * 2.0).sin(), in thousandths, for progress in twentieths.
sin_2pi(progress) ==
    LET half == ProgressUnits \div 2
        quarter == ProgressUnits \div 4
        r == progress % ProgressUnits
        h == r % half
        mag == IF h <= quarter THEN SinQuarter[h + 1] ELSE SinQuarter[half - h + 1]
    IN  IF r < half THEN mag ELSE 0 - mag

----------------------------------------------------------------------------
\* The bodies of the handlers.

\* Mutant of set_end: also restarts the pointer's animation.
set_end_restart(pointer, end_x, end_y, end_z) ==
    [pointer EXCEPT !.end_x = end_x, !.end_y = end_y, !.end_z = end_z,
                    !.animation_progress = 0]

\* lib.rs 86-90: the body of `if let Some(pointer)`.
set_end(pointer, end_x, end_y, end_z) ==
    [pointer EXCEPT !.end_x = end_x, !.end_y = end_y, !.end_z = end_z]

\* lib.rs 96: (current_time - self.last_frame_time) / 1000.0, kept in
\* milliseconds; the division is applied in progress_increment.
actual_delta(current_time, last) == current_time - last

\* lib.rs 102: actual_delta * self.animation_speed, in twentieths.
progress_increment(delta_ms, speed) ==
    (delta_ms * speed * ProgressUnits) \div (MsPerSecond * SpeedUnits)

\* Mutant of wrap: the overshoot carried forward (progress - 1.0).
wrap_carrying_overshoot(progress) ==
    IF progress > WrapLimit THEN progress - WrapLimit ELSE progress

\* Mutant of wrap: the reset at `>= 1.0`.
wrap_at_one(progress) == IF progress >= WrapLimit THEN 0 ELSE progress

\* lib.rs 104-106
wrap(progress) == IF progress > WrapLimit THEN 0 ELSE progress

\* Mutant of pulse_thickness: the pulse added to the base at three times
\* its size.
pulse_thickness_wide(progress) == ThickBase + sin_2pi(progress) * (ThickAmp + 1)

\* lib.rs 109-110
pulse_thickness(progress) == ThickBase + sin_2pi(progress) * ThickAmp

\* Mutant of animate_pointer: the pulse taken from the progress before the
\* wrap.
animate_pointer_pulse_before_wrap(pointer, delta_ms, speed) ==
    IF pointer.animated
    THEN LET raised == pointer.animation_progress
                            + progress_increment(delta_ms, speed)
         IN  [pointer EXCEPT !.animation_progress = wrap(raised),
                             !.thickness = pulse_thickness(raised)]
    ELSE pointer

\* Mutant of animate_pointer: the loop body without the `if pointer.animated`.
animate_pointer_unguarded(pointer, delta_ms, speed) ==
    LET progress == wrap(pointer.animation_progress
                           + progress_increment(delta_ms, speed))
    IN  [pointer EXCEPT !.animation_progress = progress,
                        !.thickness = pulse_thickness(progress)]

\* lib.rs 101-111: one iteration of the loop over pointers.values_mut().
animate_pointer(pointer, delta_ms, speed) ==
    IF pointer.animated
    THEN LET progress == wrap(pointer.animation_progress
                                + progress_increment(delta_ms, speed))
         IN  [pointer EXCEPT !.animation_progress = progress,
                             !.thickness = pulse_thickness(progress)]
    ELSE pointer

\* Mutant of clamp_speed: the upper clamp alone.
clamp_speed_no_floor(speed) == f64_min(speed, MaxSpeed)

\* lib.rs 215
clamp_speed(speed) == f64_min(f64_max(speed, MinSpeed), MaxSpeed)

\* One call on the CanvasRenderingContext2d: the function of the engine that
\* issued it and the entry it was drawing, the method, and its string and
\* number arguments.
Draw(by, id, call, text, nums) ==
    [by |-> by, id |-> id, call |-> call, text |-> text, nums |-> nums]

\* Mutant of project: the depth subtracted whole (x - z, y - z).
project_full_depth(x, y, z) ==
    [x |-> (x - z) * CanvasUnits, y |-> (y - z) * CanvasUnits]

\* lib.rs 147-148, 169-172: (x - z * 0.5, y - z * 0.5), in halves.
project(x, y, z) ==
    [x |-> x * CanvasUnits - z, y |-> y * CanvasUnits - z]

\* lib.rs 145-165
render_memory_block(block) ==
    LET iso == project(block.x, block.y, block.z)
        w == block.width * CanvasUnits
        h == block.height * CanvasUnits
        D(call, text, nums) == Draw("render_memory_block", block.id, call, text, nums)
    IN  << D("set_fill_style", block.color, <<>>),
           D("fill_rect", "", <<iso.x, iso.y, w, h>>),
           D("set_stroke_style", "white", <<>>),
           D("set_line_width", "", <<BorderWidth * ThickUnits>>),
           D("stroke_rect", "", <<iso.x, iso.y, w, h>>) >>
        \o (IF block.value # None
            THEN << D("set_fill_style", "white", <<>>),
                    D("set_font", "14px Arial", <<>>),
                    D("fill_text", block.value[1],
                      <<iso.x + LabelDx * CanvasUnits, iso.y + LabelDy * CanvasUnits>>) >>
            ELSE << >>)

\* lib.rs 186-201. The two side points (x - 15 cos(angle +- PI/6),
\* y - 15 sin(angle +- PI/6)) are kept as the terms they are computed from:
\* the tip, the point the arrow comes from, the length and the side.
draw_arrow_head(id, x, y, from_x, from_y) ==
    LET D(call, text, nums) == Draw("render_pointer", id, call, text, nums)
    IN  << D("begin_path", "", <<>>),
           D("move_to", "", <<x, y>>),
           D("line_to", "arrow_side", <<x, y, from_x, from_y, ArrowLength, 1>>),
           D("move_to", "", <<x, y>>),
           D("line_to", "arrow_side", <<x, y, from_x, from_y, ArrowLength, -1>>),
           D("stroke", "", <<>>) >>

\* lib.rs 167-184
render_pointer(pointer) ==
    LET start_iso == project(pointer.start_x, pointer.start_y, pointer.start_z)
        end_iso == project(pointer.end_x, pointer.end_y, pointer.end_z)
        D(call, text, nums) == Draw("render_pointer", pointer.id, call, text, nums)
    IN  << D("set_stroke_style", pointer.color, <<>>),
           D("set_line_width", "", <<pointer.thickness>>),
           D("begin_path", "", <<>>),
           D("move_to", "", <<start_iso.x, start_iso.y>>),
           D("line_to", "", <<end_iso.x, end_iso.y>>),
           D("stroke", "", <<>>) >>
        \o draw_arrow_head(pointer.id, end_iso.x, end_iso.y, start_iso.x, start_iso.y)

\* The orders in which values() may iterate over a map: HashMap leaves the
\* order unspecified.
Orders(map) ==
    { o \in [1..Cardinality(DOMAIN map) -> DOMAIN map] :
        \A i, j \in DOMAIN o : i # j => o[i] # o[j] }

RECURSIVE Concat(_, _, _)
Concat(f, order, i) ==
    IF i > Len(order) THEN << >> ELSE f[order[i]] \o Concat(f, order, i + 1)

\* Mutant of draw_commands: the pointers drawn first, the blocks over them.
draw_commands_pointers_first(canvas, block_order, pointer_order) ==
    << Draw("render", "", "clear_rect", "",
            <<0, 0, canvas.width * CanvasUnits, canvas.height * CanvasUnits>>) >>
    \o Concat([k \in DOMAIN pointers |-> render_pointer(pointers[k])], pointer_order, 1)
    \o Concat([k \in DOMAIN memory_blocks |-> render_memory_block(memory_blocks[k])],
               block_order, 1)

\* lib.rs 129-140: the calls render makes on the context once it has one.
draw_commands(canvas, block_order, pointer_order) ==
    << Draw("render", "", "clear_rect", "",
            <<0, 0, canvas.width * CanvasUnits, canvas.height * CanvasUnits>>) >>
    \o Concat([k \in DOMAIN memory_blocks |-> render_memory_block(memory_blocks[k])],
               block_order, 1)
    \o Concat([k \in DOMAIN pointers |-> render_pointer(pointers[k])], pointer_order, 1)

\* lib.rs 204-211
get_pointer_count == len(pointers)
get_memory_block_count == len(memory_blocks)

----------------------------------------------------------------------------
\* State machine.

\* AnimationEngine::new at some clock reading.
Init ==
    /\ now = StartTime
    /\ pointers = EmptyMap
    /\ memory_blocks = EmptyMap
    /\ animation_speed = InitialSpeed
    /\ last_frame_time = now
    /\ last_call = [op |-> "new"]
    /\ history = [pointer_ids |-> {}, block_ids |-> {}, elapsed |-> 0]

\* The host clock is monotonic and advances between calls.
Tick ==
    /\ now < MaxClock
    /\ now' = now + TickMs
    /\ UNCHANGED <<engine, last_call, history>>

add_pointer(pointer) ==
    LET ptr == from_value(pointer, "Pointer3D") IN
    /\ IF ptr.ok
       THEN /\ pointers' = insert(pointers, ptr.val.id, ptr.val)
            /\ last_call' = [op |-> "add_pointer", arg |-> pointer, panicked |-> FALSE,
                             present |-> ptr.val.id \in DOMAIN pointers]
            /\ history' = [history EXCEPT !.pointer_ids = @ \cup {pointer.val.id}]
       ELSE /\ pointers' = pointers
            /\ history' = history
            /\ last_call' = [op |-> "add_pointer", arg |-> pointer, panicked |-> TRUE,
                             present |-> FALSE]
    /\ UNCHANGED <<memory_blocks, animation_speed, last_frame_time, now>>

add_memory_block(block) ==
    LET mem_block == from_value(block, "MemoryBlock3D") IN
    /\ IF mem_block.ok
       THEN /\ memory_blocks' = insert(memory_blocks, mem_block.val.id, mem_block.val)
            /\ last_call' = [op |-> "add_memory_block", arg |-> block, panicked |-> FALSE,
                             present |-> mem_block.val.id \in DOMAIN memory_blocks]
            /\ history' = [history EXCEPT !.block_ids = @ \cup {block.val.id}]
       ELSE /\ memory_blocks' = memory_blocks
            /\ history' = history
            /\ last_call' = [op |-> "add_memory_block", arg |-> block, panicked |-> TRUE,
                             present |-> FALSE]
    /\ UNCHANGED <<pointers, animation_speed, last_frame_time, now>>

\* Mutant of remove_pointer: self.pointers.remove(id).unwrap().
remove_pointer_unwrap(id) ==
    /\ pointers' = remove(pointers, id)
    /\ last_call' = [op |-> "remove_pointer", id |-> id,
                     panicked |-> id \notin DOMAIN pointers,
                     present |-> id \in DOMAIN pointers]
    /\ history' = [history EXCEPT !.pointer_ids = @ \ {id}]
    /\ UNCHANGED <<memory_blocks, animation_speed, last_frame_time, now>>

remove_pointer(id) ==
    /\ pointers' = remove(pointers, id)
    /\ last_call' = [op |-> "remove_pointer", id |-> id, panicked |-> FALSE,
                     present |-> id \in DOMAIN pointers]
    /\ history' = [history EXCEPT !.pointer_ids = @ \ {id}]
    /\ UNCHANGED <<memory_blocks, animation_speed, last_frame_time, now>>

\* Mutant of remove_memory_block: the id removed from both maps.
remove_memory_block_and_pointer(id) ==
    /\ memory_blocks' = remove(memory_blocks, id)
    /\ pointers' = remove(pointers, id)
    /\ last_call' = [op |-> "remove_memory_block", id |-> id, panicked |-> FALSE,
                     present |-> id \in DOMAIN memory_blocks]
    /\ history' = [history EXCEPT !.block_ids = @ \ {id}]
    /\ UNCHANGED <<animation_speed, last_frame_time, now>>

remove_memory_block(id) ==
    /\ memory_blocks' = remove(memory_blocks, id)
    /\ last_call' = [op |-> "remove_memory_block", id |-> id, panicked |-> FALSE,
                     present |-> id \in DOMAIN memory_blocks]
    /\ history' = [history EXCEPT !.block_ids = @ \ {id}]
    /\ UNCHANGED <<pointers, animation_speed, last_frame_time, now>>

update_pointer_position(id, end_x, end_y, end_z) ==
    /\ pointers' = IF id \in DOMAIN pointers
                   THEN [pointers EXCEPT ![id] = set_end(pointers[id], end_x, end_y, end_z)]
                   ELSE pointers
    /\ last_call' = [op |-> "update_pointer_position", id |-> id,
                     end |-> Point(end_x, end_y, end_z), panicked |-> FALSE,
                     present |-> id \in DOMAIN pointers]
    /\ UNCHANGED <<memory_blocks, animation_speed, last_frame_time, now, history>>

\* Mutant of animate: the frame time taken only when a pointer is animated.
animate_skipping_idle(delta_time) ==
    LET current_time == now
        delta == actual_delta(current_time, last_frame_time)
    IN  /\ last_frame_time' = IF \E k \in DOMAIN pointers : pointers[k].animated
                              THEN current_time ELSE last_frame_time
        /\ pointers' = [k \in DOMAIN pointers |->
                            animate_pointer(pointers[k], delta, animation_speed)]
        /\ last_call' = [op |-> "animate", delta_time |-> delta_time, panicked |-> FALSE]
        /\ history' = [history EXCEPT !.elapsed = @ + (now - last_frame_time)]
        /\ UNCHANGED <<memory_blocks, animation_speed, now>>

animate(delta_time) ==
    LET current_time == now
        delta == actual_delta(current_time, last_frame_time)
    IN  /\ last_frame_time' = current_time
        /\ pointers' = [k \in DOMAIN pointers |->
                            animate_pointer(pointers[k], delta, animation_speed)]
        /\ last_call' = [op |-> "animate", delta_time |-> delta_time, panicked |-> FALSE]
        /\ history' = [history EXCEPT !.elapsed = @ + (now - last_frame_time)]
        /\ UNCHANGED <<memory_blocks, animation_speed, now>>

set_animation_speed(speed) ==
    /\ animation_speed' = clamp_speed(speed)
    /\ last_call' = [op |-> "set_animation_speed", speed |-> speed, panicked |-> FALSE]
    /\ UNCHANGED <<pointers, memory_blocks, last_frame_time, now, history>>

\* Mutant of reset: also restores the construction-time speed.
reset_with_speed ==
    /\ pointers' = EmptyMap
    /\ memory_blocks' = EmptyMap
    /\ animation_speed' = InitialSpeed
    /\ last_call' = [op |-> "reset", panicked |-> FALSE]
    /\ history' = [history EXCEPT !.pointer_ids = {}, !.block_ids = {}]
    /\ UNCHANGED <<last_frame_time, now>>

reset ==
    /\ pointers' = EmptyMap
    /\ memory_blocks' = EmptyMap
    /\ last_call' = [op |-> "reset", panicked |-> FALSE]
    /\ history' = [history EXCEPT !.pointer_ids = {}, !.block_ids = {}]
    /\ UNCHANGED <<animation_speed, last_frame_time, now>>

\* lib.rs 115-143: what a call of render comes to. get_element_by_id(..)
\* .unwrap() panics when the document has no such element;
\* dyn_into::<HtmlCanvasElement>()? returns Err for an element that is no
\* canvas; get_context("2d")?.unwrap() panics when the canvas gives no 2d
\* context; otherwise the calls are made on the context and Ok(()) returned.
render_result(canvas_id, block_order, pointer_order) ==
    IF canvas_id \notin DOMAIN Document
    THEN [op |-> "render", canvas_id |-> canvas_id, panicked |-> TRUE,
          result |-> "none", draws |-> << >>]
    ELSE IF Document[canvas_id].tag # "canvas"
    THEN [op |-> "render", canvas_id |-> canvas_id, panicked |-> FALSE,
          result |-> "Err", draws |-> << >>]
    ELSE IF ~Document[canvas_id].context2d
    THEN [op |-> "render", canvas_id |-> canvas_id, panicked |-> TRUE,
          result |-> "none", draws |-> << >>]
    ELSE [op |-> "render", canvas_id |-> canvas_id, panicked |-> FALSE,
          result |-> "Ok",
          draws |-> draw_commands(Document[canvas_id], block_order, pointer_order)]

\* Mutant of render: the frame time taken on render too.
render_marking_frame(canvas_id, block_order, pointer_order) ==
    /\ last_call' = render_result(canvas_id, block_order, pointer_order)
    /\ last_frame_time' = now
    /\ UNCHANGED <<pointers, memory_blocks, animation_speed, now, history>>

\* lib.rs 115-143: render takes &self.
render(canvas_id, block_order, pointer_order) ==
    /\ last_call' = render_result(canvas_id, block_order, pointer_order)
    /\ UNCHANGED <<engine, now, history>>

Next ==
    \/ Tick
    \/ \E js \in PointerArgs : add_pointer(js)
    \/ \E js \in BlockArgs : add_memory_block(js)
    \/ \E id \in Ids : remove_pointer(id)
    \/ \E id \in Ids : remove_memory_block(id)
    \/ \E id \in Ids, e \in EndPoints : update_pointer_position(id, e.x, e.y, e.z)
    \/ \E dt \in DeltaArgs : animate(dt)
    \/ \E s \in SpeedArgs : set_animation_speed(s)
    \/ reset

\* The calls that can change the engine. render takes &self and is left to
\* RenderSpec.
Spec == Init /\ [][Next]_vars

\* The scene built, stepped and rendered at the construction-time speed,
\* with values() iterating in any order.
RenderNext ==
    \/ Tick
    \/ \E js \in PointerArgs : add_pointer(js)
    \/ \E js \in BlockArgs : add_memory_block(js)
    \/ \E id \in Ids : remove_pointer(id)
    \/ \E id \in Ids : remove_memory_block(id)
    \/ \E id \in Ids, e \in EndPoints : update_pointer_position(id, e.x, e.y, e.z)
    \/ \E dt \in DeltaArgs : animate(dt)
    \/ reset
    \/ \E c \in CanvasIdArgs, bo \in Orders(memory_blocks), po \in Orders(pointers) :
          render(c, bo, po)

RenderSpec == Init /\ [][RenderNext]_vars

----------------------------------------------------------------------------
\* Properties.

\* A step is a call of `op` exactly when the clock stands still (only Tick
\* moves it) and the call recorded after the step is `op`.
IsCall(op) == now' = now /\ last_call'.op = op

Returned(op) == IsCall(op) /\ ~last_call'.panicked

\* C1 (upsert): add_pointer(p') on an id that is already stored (by an
\* earlier add_pointer(p)) leaves exactly one pointer under that id, equal
\* to p' in every field, keeps every other entry, and get_pointer_count()
\* is the same after the call as before it.
C1_Upsert ==
    [][ (Returned("add_pointer") /\ last_call'.arg.val.id \in DOMAIN pointers) =>
          LET p == last_call'.arg.val IN
          /\ DOMAIN pointers' = DOMAIN pointers
          /\ pointers'[p.id] = p
          /\ \A k \in DOMAIN pointers \ {p.id} : pointers'[k] = pointers[k]
          /\ Cardinality(DOMAIN pointers') = Cardinality(DOMAIN pointers) ]_vars

\* C1 witness: an add_pointer on an id that was stored, while a second
\* pointer is stored too, has replaced the stored pointer by its argument.
C1_Witness ==
    /\ last_call.op = "add_pointer"
    /\ ~last_call.panicked
    /\ last_call.present
    /\ get_pointer_count = 2
    /\ pointers[last_call.arg.val.id] = last_call.arg.val

\* C2 (idempotent removal): remove_pointer and remove_memory_block never
\* fail, and on an id that is not stored they leave both maps, both counts,
\* animation_speed and last_frame_time as they were.
C2_IdempotentRemoval ==
    [][ /\ (IsCall("remove_pointer") \/ IsCall("remove_memory_block")) =>
              ~last_call'.panicked
        /\ (IsCall("remove_pointer") /\ last_call'.id \notin DOMAIN pointers) =>
              engine' = engine
        /\ (IsCall("remove_memory_block") /\ last_call'.id \notin DOMAIN memory_blocks) =>
              engine' = engine
        /\ (IsCall("remove_pointer") /\ last_call'.id \in DOMAIN pointers) =>
              last_call'.id \notin DOMAIN pointers' ]_vars

\* C2 witness: a remove_pointer of an id that was not stored has returned,
\* with the other pointer and a block still stored.
C2_Witness ==
    /\ last_call.op = "remove_pointer"
    /\ ~last_call.present
    /\ ~last_call.panicked
    /\ get_pointer_count = 1
    /\ get_memory_block_count = 1

\* C3 (position update isolation): update_pointer_position on a stored id
\* sets the pointer's end coordinates to the arguments and changes no other
\* field of it, no other pointer, no block and no animation parameter; on
\* an id that is not stored it changes nothing and inserts nothing.
C3_UpdateIsolation ==
    [][ IsCall("update_pointer_position") =>
          LET id == last_call'.id
              e == last_call'.end
          IN  /\ ~last_call'.panicked
              /\ DOMAIN pointers' = DOMAIN pointers
              /\ \A k \in DOMAIN pointers \ {id} : pointers'[k] = pointers[k]
              /\ <<memory_blocks, animation_speed, last_frame_time>>'
                    = <<memory_blocks, animation_speed, last_frame_time>>
              /\ id \in DOMAIN pointers =>
                    /\ pointers'[id].end_x = e.x
                    /\ pointers'[id].end_y = e.y
                    /\ pointers'[id].end_z = e.z
                    /\ \A f \in {"id", "start_x", "start_y", "start_z", "color",
                                 "thickness", "animated", "animation_progress"} :
                          pointers'[id][f] = pointers[id][f] ]_vars

\* C3 witness: an update on a stored animated pointer whose animation has
\* advanced has moved its end to (1, 2, 3).
C3_Witness ==
    /\ last_call.op = "update_pointer_position"
    /\ last_call.present
    /\ LET p == pointers[last_call.id] IN
          /\ <<p.end_x, p.end_y, p.end_z>> = <<1, 2, 3>>
          /\ p.animated
          /\ p.animation_progress = 10
          /\ p.start_x = 10


InUnitInterval(progress) == 0 <= progress /\ progress < ProgressUnits

\* thickness in [1.0, 5.0]
InPulseRange(thickness) == ThickUnits <= thickness /\ thickness <= 5 * ThickUnits

\* elapsed * animationSpeed for the step about to run, in twentieths:
\* elapsed = (clock - lastFrameTimestamp) / 1000.
StepIncrement ==
    ((now - last_frame_time) * animation_speed * ProgressUnits)
        \div (MsPerSecond * SpeedUnits)

\* C4 (progress in [0, 1)): a step that would bring the progress of an
\* animated pointer to 1.0 or above wraps it to 0.0, so that after every step
\* the animationProgress of every animated pointer is in [0, 1).
C4_StepKeepsProgressBelowOne ==
    last_call.op = "animate" =>
        \A k \in DOMAIN pointers :
            pointers[k].animated => InUnitInterval(pointers[k].animation_progress)

\* C5 (animation wrap law): after every step the progress of an animated
\* pointer is at most 1.0; it is 0.0 when progress + elapsed * speed is
\* strictly above 1.0, and it is progress + elapsed * speed otherwise, a
\* value of exactly 1.0 included.
C5_WrapLaw ==
    [][ IsCall("animate") =>
          \A k \in DOMAIN pointers :
              pointers[k].animated =>
                  LET raised == pointers[k].animation_progress + StepIncrement
                      after == pointers'[k].animation_progress
                  IN  /\ after <= ProgressUnits
                      /\ raised > ProgressUnits => after = 0
                      /\ raised <= ProgressUnits => after = raised ]_vars

\* C5 witness: a step has left an animated pointer at exactly 1.0.
C5_Witness ==
    /\ last_call.op = "animate"
    /\ \E k \in DOMAIN pointers :
          pointers[k].animated /\ pointers[k].animation_progress = ProgressUnits

\* C6 (thickness bound) as stated: in every reachable state every stored
\* animated pointer has thickness in [1.0, 5.0], a just-added one included.
C6_ThicknessBoundAlways ==
    \A k \in DOMAIN pointers :
        pointers[k].animated => InPulseRange(pointers[k].thickness)

\* C6 amended: every step leaves every stored animated pointer with a
\* thickness in [1.0, 5.0], and an animated pointer whose thickness is in
\* that range keeps it there through every call except an add_pointer that
\* stores a new descriptor under its id.
C6_ThicknessBoundOnceStepped ==
    [][ \A k \in DOMAIN pointers' :
          pointers'[k].animated =>
              /\ IsCall("animate") => InPulseRange(pointers'[k].thickness)
              /\ ( /\ ~(Returned("add_pointer") /\ last_call'.arg.val.id = k)
                   /\ k \in DOMAIN pointers
                   /\ pointers[k].animated
                   /\ InPulseRange(pointers[k].thickness) )
                 => InPulseRange(pointers'[k].thickness) ]_vars

\* C6 witness: a step has taken two animated pointers, added with
\* thicknesses 10.0 and 0.5, to the two ends of the range.
C6_Witness ==
    /\ last_call.op = "animate"
    /\ DOMAIN pointers = {"a", "b"}
    /\ pointers["a"].animated /\ pointers["a"].thickness = 5 * ThickUnits
    /\ pointers["b"].animated /\ pointers["b"].thickness = ThickUnits

\* C7 (speed clamp): animation_speed is 1.0 at construction and in
\* [0.1, 5.0] in every reachable state; set_animation_speed(s) returns,
\* stores 0.1 for s < 0.1, 5.0 for s > 5.0 and s otherwise, and changes
\* nothing else.
C7_SpeedClamp ==
    /\ animation_speed = SpeedUnits
    /\ [](MinSpeed <= animation_speed /\ animation_speed <= MaxSpeed)
    /\ [][ IsCall("set_animation_speed") =>
             LET s == last_call'.speed IN
             /\ ~last_call'.panicked
             /\ animation_speed' = IF s < MinSpeed THEN MinSpeed
                                   ELSE IF s > MaxSpeed THEN MaxSpeed ELSE s
             /\ <<pointers, memory_blocks, last_frame_time>>'
                   = <<pointers, memory_blocks, last_frame_time>> ]_vars

\* C7 witness: set_animation_speed(-5.0) on a store with content has stored 0.1.
C7_Witness ==
    /\ last_call.op = "set_animation_speed"
    /\ last_call.speed = -50
    /\ animation_speed = MinSpeed
    /\ get_pointer_count > 0

\* C8 (reset clears content, not config): after reset both counts are 0 and
\* animation_speed and last_frame_time are what they were before the call.
C8_ResetKeepsConfig ==
    [][ IsCall("reset") =>
          /\ ~last_call'.panicked
          /\ Cardinality(DOMAIN pointers') = 0
          /\ Cardinality(DOMAIN memory_blocks') = 0
          /\ animation_speed' = animation_speed
          /\ last_frame_time' = last_frame_time ]_vars

\* C8 witness: a reset has run on an engine whose speed had been set to 5.0
\* and which had stepped since construction.
C8_Witness ==
    /\ last_call.op = "reset"
    /\ get_pointer_count = 0
    /\ get_memory_block_count = 0
    /\ animation_speed = MaxSpeed
    /\ last_frame_time > StartTime

\* C9 (step(t) is determined by t): after a step called with the timestamp
\* argument t, lastFrameTimestamp is t.
C9_StepTimestampIsArgument ==
    last_call.op = "animate" => last_frame_time = last_call.delta_time

\* C10 (step frame condition): a step adds and removes nothing, leaves every
\* block and animation_speed unchanged, leaves every pointer with animated =
\* false unchanged in every field, and changes no field of an animated
\* pointer other than animation_progress and thickness.
C10_StepFrame ==
    [][ IsCall("animate") =>
          /\ ~last_call'.panicked
          /\ DOMAIN pointers' = DOMAIN pointers
          /\ memory_blocks' = memory_blocks
          /\ animation_speed' = animation_speed
          /\ \A k \in DOMAIN pointers :
                /\ ~pointers[k].animated => pointers'[k] = pointers[k]
                /\ \A f \in {"id", "start_x", "start_y", "start_z", "end_x", "end_y",
                             "end_z", "color", "animated"} :
                      pointers'[k][f] = pointers[k][f] ]_vars

\* C10 witness: a step over a positive elapsed time has run on a store that
\* holds a block, a static pointer with its caller-set thickness and
\* progress, and an animated pointer whose progress has moved.
C10_Witness ==
    /\ last_call.op = "animate"
    /\ last_frame_time > StartTime
    /\ get_memory_block_count > 0
    /\ DOMAIN pointers = {"a", "b"}
    /\ ~pointers["a"].animated
    /\ pointers["a"].thickness = 2 * ThickUnits
    /\ pointers["a"].animation_progress = 5
    /\ pointers["b"].animated
    /\ pointers["b"].animation_progress = 15


\* The last call was a render that got its context and returned Ok(()).
Rendered == last_call.op = "render" /\ ~last_call.panicked /\ last_call.result = "Ok"

\* The surface named by canvas_id resolves to a canvas with a 2d context.
SurfaceUsable(canvas_id) ==
    /\ canvas_id \in DOMAIN Document
    /\ Document[canvas_id].tag = "canvas"
    /\ Document[canvas_id].context2d

\* C11 (render order): in the draw commands of one render the clear is the
\* first command and the only clear, every stored block and every stored
\* pointer is drawn, and every command issued for a block comes before every
\* command issued for a pointer.
C11_RenderOrder ==
    Rendered =>
        LET d == last_call.draws IN
        /\ Len(d) >= 1
        /\ d[1].call = "clear_rect"
        /\ \A i \in 2..Len(d) :
              d[i].call # "clear_rect" /\ d[i].by \in {"render_memory_block", "render_pointer"}
        /\ \A k \in DOMAIN memory_blocks :
              \E i \in 1..Len(d) :
                  d[i].by = "render_memory_block" /\ d[i].id = k /\ d[i].call = "fill_rect"
        /\ \A k \in DOMAIN pointers :
              \E i \in 1..Len(d) :
                  d[i].by = "render_pointer" /\ d[i].id = k /\ d[i].call = "stroke"
        /\ \A i, j \in 1..Len(d) :
              (d[i].by = "render_memory_block" /\ d[j].by = "render_pointer") => i < j

\* C11 witness: a render of two blocks and two pointers, the blocks drawn in
\* the order b, a.
C11_Witness ==
    /\ Rendered
    /\ DOMAIN memory_blocks = {"a", "b"}
    /\ DOMAIN pointers = {"a", "b"}
    /\ last_call.draws[2].by = "render_memory_block"
    /\ last_call.draws[2].id = "b"
    /\ last_call.draws[Len(last_call.draws)].by = "render_pointer"

\* C12 (render is read-only and total on store content): render changes no
\* field of the engine; on a usable surface it returns Ok whatever the store
\* holds, and on an empty store it emits the clear and nothing else.
C12_RenderReadOnly ==
    [][ IsCall("render") =>
          /\ engine' = engine
          /\ SurfaceUsable(last_call'.canvas_id) =>
                /\ ~last_call'.panicked
                /\ last_call'.result = "Ok"
                /\ Len(last_call'.draws) >= 1
                /\ (DOMAIN pointers = {} /\ DOMAIN memory_blocks = {}) =>
                      /\ Len(last_call'.draws) = 1
                      /\ last_call'.draws[1].call = "clear_rect" ]_vars

\* C12 witness: a render of an empty store, after the engine has stepped,
\* has emitted the clear alone.
C12_Witness ==
    /\ Rendered
    /\ get_pointer_count = 0
    /\ get_memory_block_count = 0
    /\ last_frame_time > StartTime
    /\ Len(last_call.draws) = 1

\* C13 (render failure is a returned error value): when the surface cannot
\* be resolved or gives no 2d context, render returns an error to the caller
\* without panicking and emits no draw command.
C13_RenderFailureIsReturned ==
    (last_call.op = "render" /\ ~SurfaceUsable(last_call.canvas_id)) =>
        /\ ~last_call.panicked
        /\ last_call.result = "Err"
        /\ last_call.draws = << >>

\* C14 (malformed input is an error value): add_pointer and add_memory_block
\* given a value that is not of the shape they take return an error without
\* panicking.
C14_MalformedInputIsError ==
    (/\ last_call.op \in {"add_pointer", "add_memory_block"}
     /\ last_call.arg.shape # (IF last_call.op = "add_pointer"
                               THEN "Pointer3D" ELSE "MemoryBlock3D")) =>
        ~last_call.panicked


\* C15 (thickness from the post-wrap progress): after a step every animated
\* pointer has thickness 3.0 + 2.0 * sin(2 pi * animation_progress) for the
\* progress it holds after the step; where the step left the progress at 0.0
\* the thickness is 3.0.
C15_ThicknessFromStoredProgress ==
    last_call.op = "animate" =>
        \A k \in DOMAIN pointers :
            pointers[k].animated =>
                /\ pointers[k].thickness
                      = 3 * ThickUnits + 2 * sin_2pi(pointers[k].animation_progress)
                /\ pointers[k].animation_progress = 0 =>
                      pointers[k].thickness = 3 * ThickUnits

\* C15 witness: a step has wrapped pointer b, added with progress 0.5 and
\* thickness 0.5, to progress 0.0 and thickness 3.0.
C15_Witness ==
    /\ last_call.op = "animate"
    /\ "b" \in DOMAIN pointers
    /\ pointers["b"].animated
    /\ pointers["b"].animation_progress = 0
    /\ pointers["b"].thickness = 3 * ThickUnits

\* The rectangle of a block on the canvas, in halves: its origin at
\* (x - z/2, y - z/2), its size width by height.
BlockRect(block) ==
    << 2 * block.x - block.z, 2 * block.y - block.z, 2 * block.width, 2 * block.height >>

\* C16 (projection): a render draws every block's rectangle (fill and
\* border) at (x - z * 0.5, y - z * 0.5) with size width by height, and every
\* pointer's line from its projected start to its projected end; the depth of
\* a block changes no draw command; (10, 10, 4) is drawn at (8, 8).
C16_Projection ==
    /\ project(10, 10, 4) = [x |-> 8 * CanvasUnits, y |-> 8 * CanvasUnits]
    /\ Rendered =>
          LET d == last_call.draws IN
          /\ \A i \in 1..Len(d) :
                /\ d[i].call \in {"fill_rect", "stroke_rect"} =>
                      d[i].nums = BlockRect(memory_blocks[d[i].id])
                /\ (d[i].call = "line_to" /\ d[i].text = "") =>
                      LET p == pointers[d[i].id] IN
                      /\ d[i].nums = << 2 * p.end_x - p.end_z, 2 * p.end_y - p.end_z >>
                      /\ d[i - 1].call = "move_to"
                      /\ d[i - 1].nums = << 2 * p.start_x - p.start_z,
                                            2 * p.start_y - p.start_z >>
          /\ \A k \in DOMAIN memory_blocks :
                /\ \E i \in 1..Len(d) : d[i].call = "fill_rect" /\ d[i].id = k
                /\ \E i \in 1..Len(d) : d[i].call = "stroke_rect" /\ d[i].id = k
                /\ \A depth \in {0, memory_blocks[k].depth + 1} :
                      render_memory_block([memory_blocks[k] EXCEPT !.depth = depth])
                          = render_memory_block(memory_blocks[k])
          /\ \A k \in DOMAIN pointers :
                \E i \in 1..Len(d) :
                    d[i].call = "line_to" /\ d[i].text = "" /\ d[i].id = k

\* C16 witness: a render has drawn a block at (10, 10, 4) with its corner at
\* (8, 8), and a pointer from (10, 10, 4) to (1, 2, 3) as a line from (8, 8)
\* to (-0.5, 0.5).
C16_Witness ==
    /\ Rendered
    /\ \E i \in 1..Len(last_call.draws) :
          /\ last_call.draws[i].call = "fill_rect"
          /\ last_call.draws[i].nums = <<16, 16, 100, 40>>
    /\ \E i \in 2..Len(last_call.draws) :
          /\ last_call.draws[i].call = "line_to"
          /\ last_call.draws[i].nums = <<-1, 1>>
          /\ last_call.draws[i - 1].nums = <<16, 16>>

InClosedUnitInterval(progress) == 0 <= progress /\ progress <= ProgressUnits

\* Clock readings earlier than the last frame time.
EarlierTimes == { last_frame_time - n * TickMs : n \in 1..(MaxTicks + 1) }

\* C17 (progress stays in [0, 1] under a monotonic clock): the clock read by
\* a step is never earlier than last_frame_time; an animated pointer added
\* with a progress in [0, 1] has a progress in [0, 1], and keeps it there
\* through every call until add_pointer stores a new descriptor under its id;
\* and there is no wrap from below: for a clock reading earlier than
\* last_frame_time the step's arithmetic leaves progress + elapsed * speed as
\* it is when that is negative.
C17_ProgressInClosedUnitInterval ==
    /\ [](now >= last_frame_time)
    /\ [](\A k \in DOMAIN pointers : \A t \in EarlierTimes :
             pointers[k].animated =>
                 LET raised == pointers[k].animation_progress
                                 + ((t - last_frame_time) * animation_speed * ProgressUnits)
                                       \div (MsPerSecond * SpeedUnits)
                     after == animate_pointer(pointers[k], actual_delta(t, last_frame_time),
                                              animation_speed).animation_progress
                 IN  /\ raised < 0 => after = raised
                     /\ InClosedUnitInterval(raised) => after = raised)
    /\ [][ \A k \in DOMAIN pointers' :
             pointers'[k].animated =>
                 IF Returned("add_pointer") /\ last_call'.arg.val.id = k
                 THEN InClosedUnitInterval(last_call'.arg.val.animation_progress)
                          => InClosedUnitInterval(pointers'[k].animation_progress)
                 ELSE (k \in DOMAIN pointers
                         /\ InClosedUnitInterval(pointers[k].animation_progress))
                          => InClosedUnitInterval(pointers'[k].animation_progress) ]_vars

\* C17 witness: a step has brought an animated pointer to exactly 1.0, from
\* where a clock reading one tick earlier would take it below 0 at speed 5.0.
C17_Witness ==
    /\ last_call.op = "animate"
    /\ animation_speed = MaxSpeed
    /\ \E k \in DOMAIN pointers :
          /\ pointers[k].animated
          /\ pointers[k].animation_progress = ProgressUnits
          /\ animate_pointer(pointers[k], 0 - TickMs, animation_speed).animation_progress < 0

\* C18 (elapsed time is consumed exactly once): every step sets
\* last_frame_time to the clock reading, whether or not a pointer is
\* animated; every animated pointer in the store at the step, whenever it
\* was added, advances by the whole interval since the previous step times
\* the speed; and the elapsed times of the steps so far add up to
\* last_frame_time minus the construction timestamp.
C18_ElapsedConsumedOnce ==
    /\ [](history.elapsed = last_frame_time - StartTime)
    /\ [][ IsCall("animate") =>
             /\ last_frame_time' = now
             /\ history'.elapsed - history.elapsed = now - last_frame_time
             /\ \A k \in DOMAIN pointers :
                   pointers[k].animated =>
                       pointers'[k].animation_progress
                           \in {0, pointers[k].animation_progress
                                     + StepIncrement}
           ]_vars

\* C18 witness: a step on a store without pointers has taken the clock
\* reading two ticks after construction.
C18_Witness ==
    /\ last_call.op = "animate"
    /\ get_pointer_count = 0
    /\ last_frame_time = StartTime + 2 * TickMs
    /\ history.elapsed = 2 * TickMs

\* C19 (counts and independence): get_pointer_count() is the number of ids
\* added by add_pointer since construction or the last reset and not removed
\* since, get_memory_block_count() likewise for blocks; the pointer calls
\* change no block and the block calls change no pointer.
C19_CountsAndIndependence ==
    /\ [](/\ get_pointer_count = Cardinality(history.pointer_ids)
          /\ get_memory_block_count = Cardinality(history.block_ids)
          /\ DOMAIN pointers = history.pointer_ids
          /\ DOMAIN memory_blocks = history.block_ids)
    /\ [][ /\ (IsCall("add_pointer") \/ IsCall("remove_pointer")
                 \/ IsCall("update_pointer_position")) =>
                 memory_blocks' = memory_blocks
           /\ (IsCall("add_memory_block") \/ IsCall("remove_memory_block")) =>
                 pointers' = pointers ]_vars

\* C19 witness: with a pointer and a block both stored under the id a, the
\* block has been removed and the pointer is still stored.
C19_Witness ==
    /\ last_call.op = "remove_memory_block"
    /\ last_call.id = "a"
    /\ last_call.present
    /\ "a" \in DOMAIN pointers
    /\ "a" \notin DOMAIN memory_blocks
    /\ get_pointer_count = 2
    /\ get_memory_block_count = 1

====
